---- MODULE Spec2Model ----
(***************************************************************************)
(* Audit / fix / consistency orchestration of brainstormpw:                *)
(*   backend/graph/nodes.py     auditor_node, fixer_node                   *)
(*   backend/graph/workflow.py  route_request, graph, run_batch_audit      *)
(*                                                                         *)
(* Python values are modelled as follows.                                  *)
(*   str (user content)   a sequence of one-character strings, so that     *)
(*                        str.strip() and len() are computed               *)
(*   str (messages)       a sequence of text fragments; an f-string is the *)
(*                        concatenation of its fragments                   *)
(*   dict                 a function with a domain of key strings; a key   *)
(*                        that is not set is not in the domain             *)
(*   None / dict values   tagged records (PyNone, PyDict(d))               *)
(*   raise                a result record with raised = TRUE               *)
(* The LLM provider is the environment: each call either returns an        *)
(* instance of the requested schema or raises.                             *)
(***************************************************************************)
EXTENDS Integers, Sequences, FiniteSets, TLC

VARIABLES credentials, checkpoint, runs, req, op, workspace, uuids, loads,
          widgets, chat_history, pending

vars == <<credentials, checkpoint, runs, req, op, workspace, uuids, loads,
          widgets, chat_history, pending>>

\* The session: st.session_state["document_workspace"], the number of
\* uuid4() values drawn so far and the number of workspaces loaded so far.
session == <<workspace, uuids, loads>>

\* The rest of st.session_state the components use: the editor widgets
\* (key f"editor_{sec_id}", here keyed by the section id) and the chat;
\* pending says that a handler has ended with st.rerun() or a callback has
\* run, and the script run that renders the page is still to come.
screen == <<widgets, chat_history, pending>>

(* ------------------------------ bounds --------------------------------- *)

MaxLen == 2

MaxSections == 2

MaxRuns == 2

MaxLoads == 2

MaxChats == 1

(* --------------------------- input universe ---------------------------- *)

Alphabet == {" ", "a", "b"}

Whitespace == {" "}

RECURSIVE StringsUpTo(_)
StringsUpTo(n) ==
    IF n = 0 THEN {<<>>}
    ELSE LET shorter == StringsUpTo(n - 1)
         IN shorter \cup {Append(s, c) : s \in {t \in shorter : Len(t) = n - 1}, c \in Alphabet}

Contents == StringsUpTo(MaxLen)

Titles == {"1. Reviewers", "2. Problem Statement"}

ErrorTexts == {"LLM API Error", "Request timed out"}

AuthErrorText == "AuthenticationError"

(* ---------------------------- Python values ---------------------------- *)

PyNone == [tag |-> "None"]

PyDict(d) == [tag |-> "dict", d |-> d]

EmptyDict == PyDict(<<>>)

PyStr(s) == [tag |-> "str", s |-> s]

\* `x is not None` in place of bool(x).
TruthyNotNone(v) == v.tag # "None"

\* bool(x) for None, dict and str values.
Truthy(v) ==
    \/ v.tag = "dict" /\ DOMAIN v.d # {}
    \/ v.tag = "str" /\ v.s # <<>>

\* dict.get(key, default)
Get(d, key, default) == IF key \in DOMAIN d THEN d[key] ELSE default

\* str.strip(): drop leading and trailing whitespace.
RECURSIVE lstrip(_)
lstrip(s) == IF s # <<>> /\ Head(s) \in Whitespace THEN lstrip(Tail(s)) ELSE s

RECURSIVE rstrip(_)
rstrip(s) ==
    IF s # <<>> /\ s[Len(s)] \in Whitespace THEN rstrip(SubSeq(s, 1, Len(s) - 1)) ELSE s

strip(s) == rstrip(lstrip(s))

\* `txt in message` for a message built from fragments.
Contains(message, txt) == \E i \in 1..Len(message) : message[i] = txt

(* --------------------------- backend/models.py ------------------------- *)

Issue(id, severity, description, recommendation, fixable) ==
    [id |-> id, severity |-> severity, issue_description |-> description,
     recommendation |-> recommendation, fixable |-> fixable]

\* Issues the provider may report (AuditResponse.issues).
FixableIssue ==
    Issue("1", "Low", <<"Formatting does not follow the template">>,
          <<"Reformat the section">>, TRUE)

MissingFactIssue ==
    Issue("2", "High", <<"Missing required field">>, <<"Add the field">>, FALSE)

ProviderIssueLists == {<<>>, <<FixableIssue>>, <<MissingFactIssue, FixableIssue>>}

AuditResponse == [is_compliant : BOOLEAN, issues : ProviderIssueLists]

FixResponse == [fixed_content : Contents]

GlobalIssue ==
    [id |-> "G-1", title |-> "Solution contradicts Problem",
     description |-> <<"Sections conflict">>,
     related_sections |-> <<"1. Reviewers", "2. Problem Statement">>]

ConsistencyResponse == [is_consistent : BOOLEAN, global_issues : {<<>>, <<GlobalIssue>>}]

(* ------------------------------ provider ------------------------------- *)

Raises(err) == [ok |-> FALSE, err |-> err]

Returns(response) == [ok |-> TRUE, response |-> response]

\* What a call of the provider client can do.  Without configured
\* credentials the client cannot obtain a response: the call raises.
Outcomes(creds, errors, schema) ==
    IF creds
    THEN {Raises(e) : e \in errors} \cup {Returns(r) : r \in schema}
    ELSE {Raises(AuthErrorText)}

Call(schema, args) == [schema |-> schema, args |-> args]

Returned(value, calls) == [raised |-> FALSE, value |-> value, calls |-> calls]

Raised(err, calls) == [raised |-> TRUE, value |-> err, calls |-> calls]

(* ------------------------- backend/graph/nodes.py ---------------------- *)

EmptyContentResult ==
    [issues |-> <<Issue("0", "High", <<"Content is empty.">>,
                        <<"Please fill in the section using the template provided.">>,
                        FALSE)>>,
     is_compliant |-> FALSE]

\* The except-branch of auditor_node.
AuditFallback(err) ==
    [issues |-> <<Issue("err", "High", <<"AI Audit Service Failed.">>,
                        <<"Please try again.">>, FALSE)>>,
     is_compliant |-> FALSE]

\* A success path that derives is_compliant from the issues.
AuditSuccessEnforced(response) ==
    [issues |-> IF response.issues # <<>> THEN response.issues ELSE <<>>,
     is_compliant |-> response.issues = <<>>]

\* What auditor_node returns when the provider returned `response`.
AuditSuccess(response) ==
    [issues |-> IF response.issues # <<>> THEN response.issues ELSE <<>>,
     is_compliant |-> response.is_compliant]

\* The guard without the strip().
IsEmptyContentUntrimmed(content) == content = <<>> \/ Len(content) < 2

\* `not content or len(content.strip()) < 2`
IsEmptyContent(content) == content = <<>> \/ Len(strip(content)) < 2

\* The provider call of auditor_node without the except-branch.
AuditTryNoExcept(call, outcome) ==
    IF outcome.ok
    THEN Returned(AuditSuccess(outcome.response), <<call>>)
    ELSE Raised(outcome.err, <<call>>)

\* The try/except around the provider call of auditor_node.
AuditTry(call, outcome) ==
    IF outcome.ok
    THEN Returned(AuditSuccess(outcome.response), <<call>>)
    ELSE Returned(AuditFallback(outcome.err), <<call>>)

auditor_node(state, outcome) ==
    LET title == Get(state, "section_title", "Unknown Section")
        criteria == Get(state, "criteria", "")
        template_struct == Get(state, "template_structure", "")
        content == Get(state, "user_content", <<>>)
        call == Call("AuditResponse",
                     [section_title |-> title, criteria |-> criteria,
                      template_structure |-> template_struct, user_content |-> content])
    IN  IF IsEmptyContent(content)
        THEN Returned(EmptyContentResult, <<>>)
        ELSE AuditTry(call, outcome)

\* `if not issue: return {"user_content": content}`
NoTargetResult(content) == [user_content |-> content]

\* What fixer_node returns when the provider returned `response`.
FixSuccess(response) == [user_content |-> response.fixed_content, target_issue |-> PyNone]

\* An except-branch that returns the content trimmed.
FixFallbackTrimmed(content) == [user_content |-> strip(content)]

\* The except-branch of fixer_node.
FixFallback(content) == [user_content |-> content]

\* A fixer that calls the provider a second time after a failure.
FixTryRetry(call, content, outcome) ==
    IF outcome.ok
    THEN Returned(FixSuccess(outcome.response), <<call>>)
    ELSE Returned(FixFallback(content), <<call, call>>)

\* The try/except around the provider call of fixer_node.
FixTry(call, content, outcome) ==
    IF outcome.ok
    THEN Returned(FixSuccess(outcome.response), <<call>>)
    ELSE Returned(FixFallback(content), <<call>>)

fixer_node(state, outcome) ==
    LET template_struct == Get(state, "template_structure", "")
        content == Get(state, "user_content", <<>>)
        issue == Get(state, "target_issue", EmptyDict)
        call == Call("FixResponse",
                     [template_structure |-> template_struct, user_content |-> content,
                      issue_description |-> Get(issue.d, "issue_description", <<"General Fix">>),
                      recommendation |-> Get(issue.d, "recommendation", <<"Follow template">>)])
    IN  IF ~Truthy(issue)
        THEN Returned(NoTargetResult(content), <<>>)
        ELSE FixTry(call, content, outcome)

(* ----------------- consistency_node (backend/graph/nodes.py) ----------- *)
\* Modelled from section 4.4 of the specification and from
\* TestConsistencyNode (tests/integration/test_graph_nodes.py).

DefaultConsistency == [is_consistent |-> FALSE, global_issues |-> <<>>]

\* A consistency_node whose fallback reports the document as consistent.
consistency_node_optimistic(full_document_content, creds, outcome) ==
    LET call == Call("ConsistencyResponse",
                     [full_document_content |-> full_document_content])
    IN  IF ~creds
        THEN Returned([is_consistent |-> TRUE, global_issues |-> <<>>], <<>>)
        ELSE IF outcome.ok
             THEN Returned([is_consistent |-> outcome.response.is_consistent,
                            global_issues |-> outcome.response.global_issues],
                           <<call>>)
             ELSE Returned([is_consistent |-> TRUE, global_issues |-> <<>>], <<call>>)

consistency_node(full_document_content, creds, outcome) ==
    LET call == Call("ConsistencyResponse",
                     [full_document_content |-> full_document_content])
    IN  IF ~creds
        THEN Returned(DefaultConsistency, <<>>)
        ELSE IF outcome.ok
             THEN Returned([is_consistent |-> outcome.response.is_consistent,
                            global_issues |-> outcome.response.global_issues],
                           <<call>>)
             ELSE Returned(DefaultConsistency, <<call>>)

(* ----------------------- backend/graph/workflow.py --------------------- *)

\* Routing on `is not None` instead of on truthiness.
route_request_not_none(state) ==
    IF Get(state, "target_issue", PyNone).tag # "None" THEN "fixer" ELSE "auditor"

route_request(state) ==
    IF Truthy(Get(state, "target_issue", PyNone)) THEN "fixer" ELSE "auditor"

\* A node's partial update written over the channels of the state.
Merge(base, update) ==
    [k \in DOMAIN base \cup DOMAIN update |->
        IF k \in DOMAIN update THEN update[k] ELSE base[k]]

\* graph.invoke(inputs, {"configurable": {"thread_id": ...}}) against the
\* checkpoint `saved` of that thread: the inputs overwrite the saved channels,
\* the conditional entry point picks one node, the node's update is merged,
\* and the run ends.  value is the final state, which is also what the
\* checkpointer keeps.
graph(saved, inputs, outcome) ==
    LET state == Merge(saved, inputs)
        branch == route_request(state)
        node == IF branch = "fixer" THEN fixer_node(state, outcome)
                ELSE auditor_node(state, outcome)
    IN  IF node.raised THEN node
        ELSE Returned(Merge(state, node.value), node.calls)

SectionTextTitleOnly(section) ==
    <<"SECTION: ", section.meta.title, "\nCONTENT:\n", "\n">>

\* f"SECTION: {meta['title']}\nCONTENT:\n{content}\n"
SectionText(section) ==
    <<"SECTION: ", section.meta.title, "\nCONTENT:\n">>
        \o section.user_data.content \o <<"\n">>

\* "\n---\n".join(full_text)
RECURSIVE Join(_)
Join(full_text) ==
    IF full_text = <<>> THEN <<>>
    ELSE IF Len(full_text) = 1 THEN full_text[1]
    ELSE full_text[1] \o <<"\n---\n">> \o Join(Tail(full_text))

\* The state run_batch_audit builds for one section.
BatchState(section) ==
    [section_title |-> section.meta.title,
     criteria |-> section.meta.criteria,
     template_structure |-> section.meta.template_structure,
     user_content |-> section.user_data.content]

\* results_map = {sec_id: audit_result}
StoreOverwrite(results_map, sec_id, audit_result) ==
    [k \in {sec_id} |-> audit_result]

\* results_map[sec_id] = audit_result
Store(results_map, sec_id, audit_result) ==
    [k \in DOMAIN results_map \cup {sec_id} |->
        IF k = sec_id THEN audit_result ELSE results_map[k]]

\* An iteration that skips the sections without content.
BatchStepSkipEmpty(acc, section, outcome) ==
    LET audit == auditor_node(BatchState(section), outcome)
    IN  IF section.user_data.content = <<>>
        THEN acc
        ELSE [acc EXCEPT !.results_map = Store(acc.results_map, section.id, audit.value),
                         !.full_text = Append(acc.full_text, SectionText(section)),
                         !.invoked = Append(acc.invoked,
                                            [node |-> "auditor_node", section |-> section.id]),
                         !.calls = acc.calls \o audit.calls]

\* One iteration of the for-loop of run_batch_audit; acc carries
\* results_map, full_text, the nodes invoked and the provider calls so far.
BatchStep(acc, section, outcome) ==
    LET audit == auditor_node(BatchState(section), outcome)
        invoked == Append(acc.invoked, [node |-> "auditor_node", section |-> section.id])
    IN  IF audit.raised
        THEN [acc EXCEPT !.raised = TRUE, !.err = audit.value,
                         !.full_text = Append(acc.full_text, SectionText(section)),
                         !.invoked = invoked,
                         !.calls = acc.calls \o audit.calls]
        ELSE [acc EXCEPT !.results_map = Store(acc.results_map, section.id, audit.value),
                         !.full_text = Append(acc.full_text, SectionText(section)),
                         !.invoked = invoked,
                         !.calls = acc.calls \o audit.calls]

\* The for-loop of run_batch_audit from section i on; an exception ends it.
RECURSIVE BatchLoop(_, _, _, _)
BatchLoop(sections, outcomes, i, acc) ==
    IF i > Len(sections) \/ acc.raised THEN acc
    ELSE BatchLoop(sections, outcomes, i + 1, BatchStep(acc, sections[i], outcomes[i]))

\* What run_batch_audit does after the loop.
BatchFinish(loop, creds, global_outcome) ==
    LET combined_content == Join(loop.full_text)
        global == consistency_node(combined_content, creds, global_outcome)
        invoked == Append(loop.invoked,
                          [node |-> "consistency_node", text |-> combined_content])
        calls == loop.calls \o global.calls
    IN  IF global.raised
        THEN [raised |-> TRUE, value |-> global.value, calls |-> calls, invoked |-> invoked]
        ELSE [raised |-> FALSE,
              value |-> [section_results |-> loop.results_map,
                         global_result |-> global.value],
              calls |-> calls, invoked |-> invoked]

run_batch_audit(sections, outcomes, creds, global_outcome) ==
    LET loop == BatchLoop(sections, outcomes, 1,
                          [raised |-> FALSE, err |-> "", results_map |-> <<>>,
                           full_text |-> <<>>, invoked |-> <<>>, calls |-> <<>>])
    IN  IF loop.raised
        THEN [raised |-> TRUE, value |-> loop.err, calls |-> loop.calls,
              invoked |-> loop.invoked]
        ELSE BatchFinish(loop, creds, global_outcome)

(* --------------------------- backend/llm_factory.py -------------------- *)

\* ChatOpenAI(**kwargs): the client, or the exception its constructor raises.
ChatOpenAI(kwargs, construct) ==
    IF construct.ok THEN Returned([tag |-> "ChatOpenAI", kwargs |-> kwargs], <<>>)
    ELSE Raised(construct.err, <<>>)

get_user_llm_system_first(session_state, construct) ==
    LET system_key == Get(session_state, "system_api_key", PyNone)
        api_key == IF ~Truthy(system_key)
                   THEN Get(session_state, "user_api_key", PyNone) ELSE system_key
    IN  IF ~Truthy(api_key) THEN [value |-> PyNone, error |-> PyNone]
        ELSE LET llm == ChatOpenAI([api_key |-> api_key, temperature |-> 0], construct)
             IN  IF llm.raised THEN [value |-> PyNone, error |-> PyStr(llm.value)]
                 ELSE [value |-> llm.value, error |-> PyNone]

\* get_user_llm() on a session state; value is what it returns and error
\* what it shows with st.error.
get_user_llm(session_state, construct) ==
    LET user_api_key == Get(session_state, "user_api_key", PyNone)
        user_model_name == Get(session_state, "user_model_name", PyNone)
        user_base_url == Get(session_state, "user_base_url", PyNone)
        api_key == IF ~Truthy(user_api_key)
                   THEN Get(session_state, "system_api_key", PyNone)
                   ELSE user_api_key
        base_url == IF ~Truthy(user_base_url)
                    THEN Get(session_state, "system_base_url", PyNone)
                    ELSE user_base_url
        model_name == IF ~Truthy(user_model_name)
                      THEN Get(session_state, "system_model_name", PyStr(<<"gpt-4o">>))
                      ELSE user_model_name
        kwargs == [api_key |-> api_key, model |-> model_name, temperature |-> 0]
        with_url == IF Truthy(base_url) /\ strip(base_url.s) # <<>>
                    THEN Merge(kwargs, [base_url |-> base_url]) ELSE kwargs
    IN  IF ~Truthy(api_key) THEN [value |-> PyNone, error |-> PyNone]
        ELSE LET llm == ChatOpenAI(with_url, construct)
             IN  IF llm.raised THEN [value |-> PyNone, error |-> PyStr(llm.value)]
                 ELSE [value |-> llm.value, error |-> PyNone]

(* ------------------------ data/template_registry.py -------------------- *)

\* An entry of TEMPLATES; criteria and template_content are kept as texts
\* named after the section.
TemplateEntry(title) ==
    [title |-> title, criteria |-> <<"criteria of ", title>>,
     template_content |-> <<"format of ", title>>]

ExampleEntry(title, example_content) ==
    [title |-> title, criteria |-> <<"criteria of ", title>>,
     template_content |-> <<"format of ", title>>,
     example_content |-> example_content]

TEMPLATES ==
    [n \in {"Standard Project Charter", "Example PMBOK Project Charter", "Simple Document"} |->
        IF n = "Standard Project Charter"
        THEN <<TemplateEntry("1. Reviewers"), TemplateEntry("2. Problem Statement"),
               TemplateEntry("3. Objectives (SMART)"), TemplateEntry("4. Risks & Mitigation")>>
        ELSE IF n = "Example PMBOK Project Charter"
        THEN <<ExampleEntry("1. Reviewers", <<"Reviewers: Jane Doe (Q-PAR)">>),
               ExampleEntry("2. Problem Statement", <<"Current Situation: manual email responses">>),
               ExampleEntry("3. Objectives (SMART)", <<"Goal: Increase average handling time">>),
               ExampleEntry("4. Risks & Mitigation", <<"The AI model might hallucinate">>)>>
        ELSE <<TemplateEntry("1. Executive Summary"), TemplateEntry("2. Key Highlights")>>]

\* TEMPLATES.get(template_name, [])
get_template_sections(template_name) ==
    IF template_name \in DOMAIN TEMPLATES THEN TEMPLATES[template_name] ELSE <<>>

(* --------------------------- app/state_manager.py ---------------------- *)

\* initialize_session() on a fresh session.
initialize_session ==
    [active_template_name |-> PyNone, sections |-> <<>>, global_result |-> PyNone]

\* The section dict load_template_into_state builds for one template entry;
\* id stands for str(uuid.uuid4()).
NewSection(id, section) ==
    [id |-> id,
     meta |-> [title |-> section.title, criteria |-> section.criteria,
               template_structure |-> section.template_content],
     user_data |-> [content |-> <<>>, last_audit |-> PyNone, status |-> "draft"]]

load_template_into_state_reuse_ids(template_name, drawn) ==
    LET raw_sections == get_template_sections(template_name)
    IN  [active_template_name |-> PyStr(template_name),
         sections |-> [i \in 1..Len(raw_sections) |-> NewSection(i, raw_sections[i])]]

load_template_into_state_same_id(template_name, drawn) ==
    LET raw_sections == get_template_sections(template_name)
    IN  [active_template_name |-> PyStr(template_name),
         sections |-> [i \in 1..Len(raw_sections) |-> NewSection(drawn + 1, raw_sections[i])]]

\* The workspace load_template_into_state stores; drawn is the number of
\* uuids drawn before, so that every id is new.
load_template_into_state(template_name, drawn) ==
    LET raw_sections == get_template_sections(template_name)
    IN  [active_template_name |-> PyStr(template_name),
         sections |-> [i \in 1..Len(raw_sections) |-> NewSection(drawn + i, raw_sections[i])]]

get_sections(ws) == Get(ws, "sections", <<>>)

get_section_by_id_or_first(ws, section_id) ==
    LET sections == get_sections(ws)
        hits == {i \in 1..Len(sections) : sections[i].id = section_id}
    IN  IF hits = {} THEN (IF sections = <<>> THEN 0 ELSE 1)
        ELSE CHOOSE i \in hits : \A j \in hits : i <= j

\* Index of the section get_section_by_id returns, 0 for None.
get_section_by_id(ws, section_id) ==
    LET sections == get_sections(ws)
        hits == {i \in 1..Len(sections) : sections[i].id = section_id}
    IN  IF hits = {} THEN 0 ELSE CHOOSE i \in hits : \A j \in hits : i <= j

update_section_content_keep_audit(ws, section_id, new_content) ==
    LET i == get_section_by_id(ws, section_id)
    IN  IF i = 0 THEN ws
        ELSE [ws EXCEPT !.sections[i].user_data.content = new_content]

update_section_content(ws, section_id, new_content) ==
    LET i == get_section_by_id(ws, section_id)
    IN  IF i = 0 THEN ws
        ELSE IF ws.sections[i].user_data.status # "draft"
        THEN [ws EXCEPT !.sections[i].user_data =
                            [content |-> new_content, last_audit |-> PyNone,
                             status |-> "draft"]]
        ELSE [ws EXCEPT !.sections[i].user_data.content = new_content]

update_section_audit_result_keep_status(ws, section_id, audit_result) ==
    LET i == get_section_by_id(ws, section_id)
    IN  IF i = 0 THEN ws
        ELSE [ws EXCEPT !.sections[i].user_data.last_audit = PyDict(audit_result)]

update_section_audit_result_truthy(ws, section_id, audit_result) ==
    LET i == get_section_by_id(ws, section_id)
    IN  IF i = 0 THEN ws
        ELSE [ws EXCEPT !.sections[i].user_data.last_audit = PyDict(audit_result),
                        !.sections[i].user_data.status =
                            IF DOMAIN audit_result # {}
                            THEN "compliant" ELSE "flagged"]

update_section_audit_result(ws, section_id, audit_result) ==
    LET i == get_section_by_id(ws, section_id)
    IN  IF i = 0 THEN ws
        ELSE [ws EXCEPT !.sections[i].user_data.last_audit = PyDict(audit_result),
                        !.sections[i].user_data.status =
                            IF Get(audit_result, "is_compliant", FALSE)
                            THEN "compliant" ELSE "flagged"]

update_global_audit_result(ws, global_result) ==
    Merge(ws, [global_result |-> PyDict(global_result)])

get_global_audit_result_or_empty(ws) == Get(ws, "global_result", EmptyDict)

get_global_audit_result(ws) == Get(ws, "global_result", PyNone)

clear_workspace == [active_template_name |-> PyNone, sections |-> <<>>]

\* load_imported_sections_into_state(sections): modelled from
\* TestLoadImportedSectionsIntoState (tests/integration/test_ingestion_state.py).
load_imported_sections_into_state(imported, drawn) ==
    [active_template_name |-> PyStr("Imported PDF"),
     sections |-> [i \in 1..Len(imported) |->
                      [id |-> drawn + i,
                       meta |-> [title |-> imported[i].title,
                                 criteria |-> imported[i].guidance,
                                 template_structure |-> imported[i].required_format],
                       user_data |-> [content |-> imported[i].content,
                                      last_audit |-> PyNone, status |-> "draft"]]],
     global_result |-> PyNone]

(* ------------------------- app/components, backend/chat.py ------------- *)

\* The inputs the Review button builds: the editor widget's text when the
\* widget state exists, the stored content otherwise.
ReviewInputs(section, editors) ==
    [section_title |-> section.meta.title,
     criteria |-> section.meta.criteria,
     template_structure |-> section.meta.template_structure,
     user_content |-> Get(editors, section.id, section.user_data.content),
     issues |-> <<>>,
     is_compliant |-> FALSE,
     target_issue |-> PyNone]

\* The inputs _handle_fix_request builds.
FixInputs(section, target_issue) ==
    [section_title |-> section.meta.title,
     criteria |-> section.meta.criteria,
     template_structure |-> section.meta.template_structure,
     user_content |-> section.user_data.content,
     issues |-> <<>>,
     is_compliant |-> FALSE,
     target_issue |-> PyDict(target_issue)]

\* The text areas of sections i..last of render_section_editor, in order:
\* each returns its widget state (created from the stored content when the
\* key is new) and is synced to the store when it differs.
RECURSIVE text_areas(_, _, _, _)
text_areas(ws, editors, i, last) ==
    IF i > last THEN [ws |-> ws, editors |-> editors]
    ELSE LET section == ws.sections[i]
             current_content == Get(editors, section.id, section.user_data.content)
             synced == IF current_content # section.user_data.content
                       THEN update_section_content(ws, section.id, current_content)
                       ELSE ws
         IN  text_areas(synced, Merge(editors, [k \in {section.id} |-> current_content]),
                        i + 1, last)

\* A run of render_section_editor in which no button is clicked.
render_section_editor(ws, editors) ==
    text_areas(ws, editors, 1, Len(get_sections(ws)))

\* st.rerun(): the widget state the next run starts from.  The editors the
\* interrupted run had rendered keep their state; whether the state of the
\* others survives is decided by Streamlit, not by this repository, so both
\* outcomes are allowed.
rerun(editors, rendered, keeps) ==
    IF keeps THEN editors
    ELSE [id \in DOMAIN editors \cap rendered |-> editors[id]]

\* The ids of the first n sections.
IdsAbove(ws, n) == {ws.sections[k].id : k \in 1..n}

\* A Review that keeps the audit of the stored content.
review_stored(ws, editors, i, outcome, keeps) ==
    LET before == text_areas(ws, editors, 1, i - 1)
        section == before.ws.sections[i]
        result == graph(<<>>, ReviewInputs(section, <<>>), outcome)
    IN  IF result.raised THEN before
        ELSE [ws |-> update_section_audit_result(before.ws, section.id, result.value),
              editors |-> rerun(before.editors, IdsAbove(ws, i - 1), keeps)]

\* The Review button of section i clicked: the sections above it are
\* rendered first, then the graph runs on the inputs and the result is
\* stored; st.rerun() ends the run.  Every channel of the graph is supplied,
\* so nothing of the thread's checkpoint is read.
review(ws, editors, i, outcome, keeps) ==
    LET before == text_areas(ws, editors, 1, i - 1)
        section == before.ws.sections[i]
        result == graph(<<>>, ReviewInputs(section, before.editors), outcome)
    IN  IF result.raised THEN before
        ELSE [ws |-> update_section_audit_result(before.ws, section.id, result.value),
              editors |-> rerun(before.editors, IdsAbove(ws, i - 1), keeps)]

\* An issue card that offers Auto-Fix unless the flag says otherwise.
issue_button_default_fix(issue) ==
    IF Get(issue, "fixable", TRUE) THEN "Auto-Fix" ELSE "Input Required"

\* The button render_audit_results shows under an issue.
issue_button(issue) ==
    IF Get(issue, "fixable", FALSE) THEN "Auto-Fix" ELSE "Input Required"

\* The buttons render_audit_results shows for a section, one per issue; the
\* 'Input Required' button is disabled.
render_audit_results(section) ==
    LET audit_data == section.user_data.last_audit
    IN  IF ~Truthy(audit_data) THEN <<>>
        ELSE IF Get(audit_data.d, "is_compliant", FALSE) THEN <<>>
        ELSE LET issues == Get(audit_data.d, "issues", <<>>)
             IN  [j \in 1..Len(issues) |->
                    [label |-> issue_button(issues[j]),
                     disabled |-> issue_button(issues[j]) # "Auto-Fix",
                     issue |-> issues[j]]]

\* _handle_fix_request(section, target_issue), the callback of Auto-Fix.
handle_fix_request(ws, editors, section, target_issue, outcome) ==
    LET result == graph(<<>>, FixInputs(section, target_issue), outcome)
    IN  IF result.raised \/ "user_content" \notin DOMAIN result.value
        THEN [ws |-> ws, editors |-> editors]
        ELSE LET new_text == result.value.user_content
                 stored == update_section_content(ws, section.id, new_text)
             IN  [ws |-> update_section_audit_result(stored, section.id, <<>>),
                  editors |-> IF section.id \in DOMAIN editors
                              THEN [editors EXCEPT ![section.id] = new_text]
                              ELSE editors]

\* The deposits of _run_global_audit for sections i.. of the batch, in the
\* order of section_results.
RECURSIVE deposit(_, _, _, _)
deposit(ws, sections, section_results, i) ==
    IF i > Len(sections) THEN ws
    ELSE deposit(IF sections[i].id \in DOMAIN section_results
                 THEN update_section_audit_result(ws, sections[i].id,
                                                  section_results[sections[i].id])
                 ELSE ws,
                 sections, section_results, i + 1)

\* _run_global_audit(sections)
run_global_audit(ws, outcomes, creds, global_outcome) ==
    LET sections == get_sections(ws)
        results == run_batch_audit(sections, outcomes, creds, global_outcome)
    IN  IF results.raised THEN ws
        ELSE update_global_audit_result(
                 deposit(ws, sections, results.value.section_results, 1),
                 results.value.global_result)

\* get_chat_response(history, current_sections): the answer, or the text of
\* the except-branch.
get_chat_response(outcome) ==
    IF outcome.ok THEN outcome.response
    ELSE <<"I'm having trouble reading the document right now. Error: ", outcome.err>>

\* The force-sync loop of _handle_chat_submit from section i on.
RECURSIVE force_sync(_, _, _)
force_sync(ws, editors, i) ==
    IF i > Len(get_sections(ws)) THEN ws
    ELSE LET sec == ws.sections[i]
         IN  force_sync(IF sec.id \in DOMAIN editors
                        THEN update_section_content(ws, sec.id, editors[sec.id])
                        ELSE ws,
                        editors, i + 1)

\* _handle_chat_submit(user_input) on the chat history.
chat_submit(history, user_input, outcome) ==
    history \o <<[role |-> "user", content |-> user_input],
                 [role |-> "assistant", content |-> get_chat_response(outcome)]>>

(* ------------------------------- inputs -------------------------------- *)

Criteria == "Must include Q-PAR"

TemplateStructure == "Reviewers: <Name>"

\* Values a caller may put under "target_issue".
TargetIssues == {PyNone, EmptyDict, PyDict(FixableIssue), PyDict(MissingFactIssue)}

\* AgentState dicts handed to a node; "target_issue" may be left out.
AgentStates ==
    LET base == [section_title : Titles, criteria : {Criteria},
                 template_structure : {TemplateStructure}, user_content : Contents]
    IN  base \cup {Merge(b, [target_issue |-> t]) : b \in base, t \in TargetIssues}

ThreadIds == {"s1", "s2"}

\* Contents used where whole documents or saved threads are enumerated:
\* empty, one character after trimming, and long enough to be audited.
SampleContents == {<<>>, <<" ", "a">>, <<"a", "b">>}

\* Inputs of graph.invoke: the dicts built by the Review button and the
\* Auto-Fix callback, and the same without the "target_issue" key.
GraphInputs ==
    LET base == [section_title : {"1. Reviewers"}, criteria : {Criteria},
                 template_structure : {TemplateStructure},
                 user_content : {<<>>, <<"a", "b">>},
                 issues : {<<>>}, is_compliant : {FALSE}]
    IN  base \cup {Merge(b, [target_issue |-> t]) :
                      b \in base, t \in {PyNone, EmptyDict, PyDict(FixableIssue)}}

SampleErrors == {"LLM API Error"}

SampleAuditResponse == {[is_compliant |-> TRUE, issues |-> <<>>],
                        [is_compliant |-> FALSE, issues |-> <<FixableIssue>>]}

SampleFixResponse == [fixed_content : {<<"b", "a">>}]

SampleConsistencyResponse == {[is_consistent |-> TRUE, global_issues |-> <<>>],
                              [is_consistent |-> FALSE, global_issues |-> <<GlobalIssue>>]}

SectionIds == {"s1", "s2", "s3"}

\* Two of the sections share a title.
TitleOf(id) == IF id = "s2" THEN "2. Problem Statement" ELSE "1. Reviewers"

Sections ==
    {[id |-> id,
      meta |-> [title |-> TitleOf(id), criteria |-> Criteria,
                template_structure |-> TemplateStructure],
      user_data |-> [content |-> c, last_audit |-> PyNone, status |-> "draft"]] :
        id \in SectionIds, c \in SampleContents}

RECURSIVE SeqsUpTo(_, _)
SeqsUpTo(S, n) ==
    IF n = 0 THEN {<<>>}
    ELSE LET shorter == SeqsUpTo(S, n - 1)
         IN shorter \cup {Append(s, x) : s \in {t \in shorter : Len(t) = n - 1}, x \in S}

\* Template names picked in the sidebar; the last one is not registered.
TemplateNames == {"Example PMBOK Project Charter", "Simple Document", "No Such Template"}

\* What the editor may write into a section.
EditedContents == {<<"a", "b">>}

\* ProjectSection lists handed over by the PDF import.
ImportedLists ==
    {<<>>,
     <<[title |-> "Problem Statement", guidance |-> <<"Define the core problem">>,
        required_format |-> <<"[Problem] affects [Who]">>,
        content |-> <<"High churn affects sales team">>]>>}

\* A session-state key that is not set.
Unset == [tag |-> "unset"]

\* What the sidebar and the secrets may have put into the session state.
SessionStates ==
    LET all == [user_api_key : {Unset, PyStr(<<>>), PyStr(<<" ">>), PyStr(<<"sk-user">>)},
                system_api_key : {Unset, PyStr(<<>>), PyStr(<<"sk-system">>)},
                user_base_url : {Unset, PyStr(<<" ">>), PyStr(<<"https://user.example/v1">>)},
                system_base_url : {Unset, PyStr(<<"https://system.example/v1">>)},
                user_model_name : {Unset, PyStr(<<"gpt-4o-mini">>)},
                system_model_name : {Unset, PyStr(<<"gpt-4.1">>)}]
    IN  {[k \in {k \in DOMAIN full : full[k] # Unset} |-> full[k]] : full \in all}

\* What the ChatOpenAI constructor can do.
Constructions == {Returns("client"), Raises("Invalid API key")}

\* An audit result as a caller of the state manager may deposit it, with an
\* issue that carries no fixable flag, as issue.get("fixable", False)
\* provides for.
UnflaggedAudit ==
    [is_compliant |-> FALSE,
     issues |-> <<[id |-> "7", severity |-> "Medium",
                   issue_description |-> <<"The timeline contradicts the scope.">>,
                   recommendation |-> <<"Adjust timeline.">>]>>]

\* Sections as render_audit_results may be handed them: audited by the
\* provider, by the auditor's own guards, or with an unflagged issue.
AuditedSections ==
    {[sec EXCEPT !.user_data.last_audit = PyDict(audit),
                 !.user_data.status = IF Get(audit, "is_compliant", FALSE)
                                      THEN "compliant" ELSE "flagged"] :
        sec \in Sections,
        audit \in SampleAuditResponse
                      \cup {UnflaggedAudit, EmptyContentResult, AuditFallback(AuthErrorText)}}

\* The greeting render_chat_widget puts into a new chat.
Greeting == [role |-> "assistant", content |-> <<"Hello! I'm reading your draft.">>]

\* What the user sends to the chat.
ChatInputs == {<<"Summarize my current draft so far.">>}

\* What the chat model can do.
ChatOutcomes == Outcomes(credentials, {}, {<<"Here is a summary.">>})

\* What the consistency call of a review-all click can do.
GlobalOutcomes == Outcomes(credentials, {}, SampleConsistencyResponse)

\* The call a test or a caller is about to make.
Requests ==
    {[kind |-> k, state |-> st] : k \in {"route", "audit", "fix"}, st \in AgentStates}
    \cup {[kind |-> "consistency", text |-> Join(<<SectionText(sec)>>)] : sec \in Sections}
    \cup {[kind |-> "graph"], [kind |-> "session"]}
    \cup {[kind |-> "ui", template |-> "Simple Document"]}
    \cup {[kind |-> "render", section |-> sec] : sec \in AuditedSections}
    \cup {[kind |-> "llm", session_state |-> ss] : ss \in SessionStates}
    \cup {[kind |-> "batch", sections |-> secs] : secs \in SeqsUpTo(Sections, MaxSections)}

(* ------------------------------- actions ------------------------------- *)

NoOp == [kind |-> "none"]

Init ==
    /\ credentials \in BOOLEAN
    /\ checkpoint = [t \in ThreadIds |-> <<>>]
    /\ runs = 0
    /\ req \in Requests
    /\ op = NoOp
    /\ workspace = initialize_session
    /\ uuids = 0
    /\ loads = 0
    /\ widgets = <<>>
    /\ chat_history = <<Greeting>>
    /\ pending = FALSE

\* route_request(state)
CallRouteRequest ==
    /\ req.kind = "route" /\ op = NoOp
    /\ op' = [kind |-> "route", result |-> Returned(route_request(req.state), <<>>)]
    /\ UNCHANGED <<credentials, checkpoint, runs, req, session, screen>>

\* auditor_node(state)
CallAuditorNode ==
    /\ req.kind = "audit" /\ op = NoOp
    /\ \E outcome \in Outcomes(credentials, ErrorTexts, AuditResponse) :
          op' = [kind |-> "audit", outcome |-> outcome,
                 result |-> auditor_node(req.state, outcome)]
    /\ UNCHANGED <<credentials, checkpoint, runs, req, session, screen>>

\* fixer_node(state)
CallFixerNode ==
    /\ req.kind = "fix" /\ op = NoOp
    /\ \E outcome \in Outcomes(credentials, ErrorTexts, FixResponse) :
          op' = [kind |-> "fix", outcome |-> outcome,
                 result |-> fixer_node(req.state, outcome)]
    /\ UNCHANGED <<credentials, checkpoint, runs, req, session, screen>>

\* consistency_node(full_document_content)
CallConsistencyNode ==
    /\ req.kind = "consistency" /\ op = NoOp
    /\ \E outcome \in Outcomes(credentials, ErrorTexts, ConsistencyResponse) :
          op' = [kind |-> "consistency", outcome |-> outcome,
                 result |-> consistency_node(req.text, credentials, outcome)]
    /\ UNCHANGED <<credentials, checkpoint, runs, req, session, screen>>

\* graph.invoke(inputs, config) with config.configurable.thread_id = thread
GraphInvoke ==
    /\ req.kind = "graph" /\ runs < MaxRuns
    /\ \E thread \in ThreadIds, inputs \in GraphInputs :
        LET state == Merge(checkpoint[thread], inputs)
            branch == route_request(state)
            schema == IF branch = "fixer" THEN SampleFixResponse ELSE SampleAuditResponse
        IN  \E outcome \in Outcomes(credentials, SampleErrors, schema) :
                LET result == graph(checkpoint[thread], inputs, outcome)
                IN  /\ op' = [kind |-> "invoke", thread |-> thread, inputs |-> inputs,
                              saved |-> checkpoint[thread], branch |-> branch,
                              outcome |-> outcome, result |-> result]
                    /\ checkpoint' = IF result.raised THEN checkpoint
                                     ELSE [checkpoint EXCEPT ![thread] = result.value]
    /\ runs' = runs + 1
    /\ UNCHANGED <<credentials, req, session, screen>>

\* get_user_llm()
CallGetUserLlm ==
    /\ req.kind = "llm" /\ op = NoOp
    /\ \E construct \in Constructions :
          op' = [kind |-> "llm", construct |-> construct,
                 result |-> get_user_llm(req.session_state, construct)]
    /\ UNCHANGED <<credentials, checkpoint, runs, req, session, screen>>

\* A batch that writes each result into the section it was given.
RunBatchAuditInPlace ==
    /\ req.kind = "batch" /\ op = NoOp
    /\ \E outcomes \in [1..Len(req.sections) ->
                           Outcomes(credentials, SampleErrors, SampleAuditResponse)],
          global_outcome \in Outcomes(credentials, SampleErrors, SampleConsistencyResponse) :
            LET result == run_batch_audit(req.sections, outcomes, credentials,
                                          global_outcome)
            IN  /\ op' = [kind |-> "batch", outcomes |-> outcomes,
                          global_outcome |-> global_outcome, result |-> result]
                /\ req' = [req EXCEPT !.sections =
                              [i \in 1..Len(req.sections) |->
                                  [req.sections[i] EXCEPT !.user_data.status = "flagged"]]]
    /\ UNCHANGED <<credentials, checkpoint, runs, session, screen>>

\* run_batch_audit(sections)
RunBatchAudit ==
    /\ req.kind = "batch" /\ op = NoOp
    /\ \E outcomes \in [1..Len(req.sections) ->
                           Outcomes(credentials, SampleErrors, SampleAuditResponse)],
          global_outcome \in Outcomes(credentials, SampleErrors, SampleConsistencyResponse) :
            op' = [kind |-> "batch", outcomes |-> outcomes,
                   global_outcome |-> global_outcome,
                   result |-> run_batch_audit(req.sections, outcomes, credentials,
                                              global_outcome)]
    /\ UNCHANGED <<credentials, checkpoint, runs, req, session, screen>>

\* The section ids a caller may name: those of the sections on screen and
\* one that no section carries.
KnownIds == {get_sections(workspace)[i].id : i \in 1..Len(get_sections(workspace))}
                \cup {uuids + 1}

others == <<credentials, checkpoint, runs, req, op>>

backend == <<credentials, checkpoint, runs, req, op, uuids, loads>>

\* load_template_into_state(template_name); in the sidebar st.rerun()
\* follows.
LoadTemplate(template_name) ==
    /\ \/ req.kind = "session" /\ loads < MaxLoads
       \/ req.kind = "ui" /\ loads = 0 /\ template_name = req.template
    /\ workspace' = load_template_into_state(template_name, uuids)
    /\ uuids' = uuids + Len(get_template_sections(template_name))
    /\ loads' = loads + 1
    /\ pending' = (req.kind = "ui")
    /\ UNCHANGED <<others, widgets, chat_history>>

\* load_imported_sections_into_state(sections)
LoadImported(imported) ==
    /\ req.kind = "session" /\ loads < MaxLoads
    /\ workspace' = load_imported_sections_into_state(imported, uuids)
    /\ uuids' = uuids + Len(imported)
    /\ loads' = loads + 1
    /\ UNCHANGED <<others, screen>>

\* clear_workspace()
ClearWorkspace ==
    /\ req.kind = "session"
    /\ workspace' = clear_workspace
    /\ UNCHANGED <<uuids, loads>>
    /\ UNCHANGED <<others, screen>>

\* update_section_content(section_id, new_content)
UpdateSectionContent(section_id, new_content) ==
    /\ req.kind = "session"
    /\ workspace' = update_section_content(workspace, section_id, new_content)
    /\ UNCHANGED <<uuids, loads>>
    /\ UNCHANGED <<others, screen>>

\* update_section_audit_result(section_id, audit_result)
UpdateSectionAuditResult(section_id, audit_result) ==
    /\ req.kind = "session" /\ audit_result \in SampleAuditResponse
    /\ workspace' = update_section_audit_result(workspace, section_id, audit_result)
    /\ UNCHANGED <<uuids, loads>>
    /\ UNCHANGED <<others, screen>>

\* update_global_audit_result(global_result)
UpdateGlobalAuditResult(global_result) ==
    /\ req.kind = "session"
    /\ workspace' = update_global_audit_result(workspace, global_result)
    /\ UNCHANGED <<uuids, loads>>
    /\ UNCHANGED <<others, screen>>

\* The indices of the sections on screen.
OnScreen == 1..Len(get_sections(workspace))

\* The user types into the editor of section i; the text reaches the
\* session state with the next script run.
TypeText(i, text) ==
    /\ req.kind = "ui" /\ ~pending
    /\ workspace.sections[i].id \in DOMAIN widgets
    /\ widgets[workspace.sections[i].id] # text
    /\ widgets' = [widgets EXCEPT ![workspace.sections[i].id] = text]
    /\ UNCHANGED <<workspace, chat_history, pending, backend>>

\* A script run in which no button is clicked: the run that follows a
\* st.rerun() or a callback, or the one a changed editor starts.
RenderEditor ==
    /\ req.kind = "ui"
    /\ LET run == render_section_editor(workspace, widgets)
       IN  /\ workspace' = run.ws
           /\ widgets' = run.editors
    /\ pending' = FALSE
    /\ UNCHANGED <<chat_history, backend>>

\* The Review button of section i, clicked on a rendered page.
ClickReview(i, outcome) ==
    /\ req.kind = "ui" /\ ~pending
    /\ pending' = TRUE
    /\ \E keeps \in BOOLEAN :
          LET run == review(workspace, widgets, i, outcome, keeps)
          IN  /\ workspace' = run.ws
              /\ widgets' = run.editors
    /\ UNCHANGED <<chat_history, backend>>

\* The Auto-Fix button under issue j of section i: the callback runs, the
\* script body follows.
ClickAutoFix(i, j, outcome) ==
    /\ req.kind = "ui" /\ ~pending
    /\ pending' = TRUE
    /\ j \in DOMAIN render_audit_results(workspace.sections[i])
    /\ ~render_audit_results(workspace.sections[i])[j].disabled
    /\ LET run == handle_fix_request(workspace, widgets, workspace.sections[i],
                                     render_audit_results(workspace.sections[i])[j].issue,
                                     outcome)
       IN  /\ workspace' = run.ws
           /\ widgets' = run.editors
    /\ UNCHANGED <<chat_history, backend>>

\* The review-all button of render_global_feedback, which is rendered above
\* the editors; st.rerun() ends the run.
ClickReviewAll(outcomes, global_outcome) ==
    /\ req.kind = "ui" /\ ~pending
    /\ pending' = TRUE
    /\ get_sections(workspace) # <<>>
    /\ workspace' = run_global_audit(workspace, outcomes, credentials, global_outcome)
    /\ \E keeps \in BOOLEAN : widgets' = rerun(widgets, {}, keeps)
    /\ UNCHANGED <<chat_history, backend>>

\* render_audit_results(section)
CallRenderAuditResults ==
    /\ req.kind = "render" /\ op = NoOp
    /\ op' = [kind |-> "render", buttons |-> render_audit_results(req.section)]
    /\ UNCHANGED <<credentials, checkpoint, runs, req, session, screen>>

\* A chat message sent: the editor is rendered above the chat in the same
\* run, then _handle_chat_submit runs.
ChatSubmit(user_input, outcome) ==
    /\ req.kind = "ui" /\ ~pending
    /\ pending' = TRUE
    /\ Len(chat_history) < 1 + 2 * MaxChats
    /\ LET run == render_section_editor(workspace, widgets)
       IN  /\ workspace' = force_sync(run.ws, run.editors, 1)
           /\ widgets' = run.editors
    /\ chat_history' = chat_submit(chat_history, user_input, outcome)
    /\ UNCHANGED backend

Next ==
    \/ CallRouteRequest
    \/ CallAuditorNode
    \/ CallFixerNode
    \/ CallConsistencyNode
    \/ GraphInvoke
    \/ RunBatchAudit
    \/ CallGetUserLlm
    \/ \E template_name \in TemplateNames : LoadTemplate(template_name)
    \/ \E imported \in ImportedLists : LoadImported(imported)
    \/ ClearWorkspace
    \/ \E section_id \in KnownIds, new_content \in EditedContents :
          UpdateSectionContent(section_id, new_content)
    \/ \E section_id \in KnownIds, audit_result \in SampleAuditResponse :
          UpdateSectionAuditResult(section_id, audit_result)
    \/ \E global_result \in SampleConsistencyResponse :
          UpdateGlobalAuditResult(global_result)
    \/ CallRenderAuditResults
    \/ \E i \in OnScreen, text \in EditedContents : TypeText(i, text)
    \/ RenderEditor
    \/ \E i \in OnScreen :
          \E outcome \in Outcomes(credentials, SampleErrors, SampleAuditResponse) :
              ClickReview(i, outcome)
    \/ \E i \in OnScreen :
          \E j \in DOMAIN render_audit_results(workspace.sections[i]),
             outcome \in Outcomes(credentials, SampleErrors, SampleFixResponse) :
              ClickAutoFix(i, j, outcome)
    \/ \E outcomes \in [OnScreen -> Outcomes(credentials, SampleErrors, SampleAuditResponse)],
          global_outcome \in GlobalOutcomes :
              ClickReviewAll(outcomes, global_outcome)
    \/ \E user_input \in ChatInputs, outcome \in ChatOutcomes :
          ChatSubmit(user_input, outcome)

Spec == Init /\ [][Next]_vars

(* ------------------------------- claims -------------------------------- *)

HasTarget(state) == "target_issue" \in DOMAIN state

\* Length of s between its first and its last non-whitespace character.
TrimmedLen(s) ==
    LET solid == {i \in 1..Len(s) : s[i] \notin Whitespace}
    IN  IF solid = {} THEN 0
        ELSE (CHOOSE i \in solid : \A j \in solid : j <= i)
             - (CHOOSE i \in solid : \A j \in solid : i <= j) + 1

\* Exactly one issue, of severity High and not fixable, and not compliant.
SingleBlockingIssue(result) ==
    /\ result.is_compliant = FALSE
    /\ Len(result.issues) = 1
    /\ result.issues[1].severity = "High"
    /\ result.issues[1].fixable = FALSE

\* C1 as stated: route_request returns "fixer" for every request whose
\* target_issue is non-null and "auditor" for every request whose
\* target_issue is null.
C1_RouteOnNonNull ==
    op.kind = "route" =>
        op.result.value =
            (IF HasTarget(req.state) /\ req.state.target_issue.tag # "None"
             THEN "fixer" ELSE "auditor")

\* C1 (amended): route_request returns "fixer" exactly for the requests whose
\* target_issue is a non-empty dict, and "auditor" when it is null, missing
\* or an empty dict, whatever the other fields of the request are.
C1_RouteOnNonEmptyTarget ==
    op.kind = "route" =>
        op.result.value =
            (IF /\ HasTarget(req.state)
                /\ req.state.target_issue.tag = "dict"
                /\ DOMAIN req.state.target_issue.d # {}
             THEN "fixer" ELSE "auditor")

C1_Witness ==
    /\ op.kind = "route"
    /\ HasTarget(req.state)
    /\ req.state.target_issue = EmptyDict
    /\ op.result.value = "auditor"

\* C2: for every user_content that is empty or whose trimmed length is below
\* 2, auditor_node returns is_compliant = false with exactly one issue, of
\* severity High and not fixable, and makes no provider call.
C2_EmptyContentFailFast ==
    (op.kind = "audit" /\ TrimmedLen(req.state.user_content) < 2) =>
        /\ ~op.result.raised
        /\ SingleBlockingIssue(op.result.value)
        /\ op.result.calls = <<>>

C2_Witness ==
    /\ op.kind = "audit"
    /\ req.state.user_content = <<" ", "a">>
    /\ credentials
    /\ op.result.value.issues[1].id = "0"
    /\ op.result.calls = <<>>

\* C3: when the provider call raises during auditor_node on non-empty
\* content, the node returns is_compliant = false with exactly one
\* High-severity, non-fixable issue whose description contains the
\* provider's error text.
C3_ProviderErrorInDescription ==
    (/\ op.kind = "audit"
     /\ credentials
     /\ TrimmedLen(req.state.user_content) >= 2
     /\ ~op.outcome.ok) =>
        /\ ~op.result.raised
        /\ SingleBlockingIssue(op.result.value)
        /\ Contains(op.result.value.issues[1].issue_description, op.outcome.err)

\* C4: without configured credentials auditor_node (on non-empty content) and
\* fixer_node (with a target issue) return without any provider call; the
\* audit result is a single High, non-fixable "credentials missing" issue and
\* the fix result carries user_content unchanged.
C4_NoProviderCallWithoutCredentials ==
    ~credentials =>
        /\ (op.kind = "audit" /\ TrimmedLen(req.state.user_content) >= 2) =>
              /\ op.result.calls = <<>>
              /\ SingleBlockingIssue(op.result.value)
              /\ op.result.value.issues[1].id = "auth_err"
        /\ (op.kind = "fix" /\ HasTarget(req.state) /\ Truthy(req.state.target_issue)) =>
              /\ op.result.calls = <<>>
              /\ op.result.value.user_content = req.state.user_content

\* The shape of an AuditResult dict.
IsAuditResult(r) ==
    /\ DOMAIN r = {"issues", "is_compliant"}
    /\ r.is_compliant \in BOOLEAN
    /\ \A i \in 1..Len(r.issues) :
          /\ DOMAIN r.issues[i] =
                 {"id", "severity", "issue_description", "recommendation", "fixable"}
          /\ r.issues[i].fixable \in BOOLEAN
          /\ r.issues[i].severity \in {"High", "Medium", "Low"}

\* The shape of a ConsistencyResult dict.
IsConsistencyResult(r) ==
    /\ DOMAIN r = {"is_consistent", "global_issues"}
    /\ r.is_consistent \in BOOLEAN
    /\ \A i \in 1..Len(r.global_issues) :
          DOMAIN r.global_issues[i] = {"id", "title", "description", "related_sections"}

\* A content string: a sequence of characters.
IsContent(c) == \A i \in 1..Len(c) : c[i] \in Alphabet

\* C5: audit, fix, consistency check and batch audit never let an exception
\* escape: whatever the input and whether the provider call succeeds or
\* raises, each returns a result of its declared shape.
C5_NoExceptionEscapes ==
    /\ op.kind = "audit" =>
          ~op.result.raised /\ IsAuditResult(op.result.value)
    /\ op.kind = "fix" =>
          /\ ~op.result.raised
          /\ "user_content" \in DOMAIN op.result.value
          /\ IsContent(op.result.value.user_content)
    /\ op.kind = "consistency" =>
          ~op.result.raised /\ IsConsistencyResult(op.result.value)
    /\ op.kind = "batch" =>
          /\ ~op.result.raised
          /\ DOMAIN op.result.value = {"section_results", "global_result"}
          /\ IsConsistencyResult(op.result.value.global_result)
          /\ \A id \in DOMAIN op.result.value.section_results :
                IsAuditResult(op.result.value.section_results[id])

C5_Witness ==
    /\ op.kind = "batch"
    /\ Len(req.sections) = 2
    /\ \A i \in 1..2 : TrimmedLen(req.sections[i].user_data.content) >= 2
    /\ \A i \in 1..2 : ~op.outcomes[i].ok
    /\ ~op.global_outcome.ok
    /\ credentials
    /\ Len(op.result.calls) = 3
    /\ ~op.result.raised

\* C6: fixer_node called with target_issue null, missing or empty is a
\* no-op: the returned content is the input user_content and no provider
\* call is made.
C6_FixWithoutTargetIsNoOp ==
    (/\ op.kind = "fix"
     /\ \/ ~HasTarget(req.state)
        \/ req.state.target_issue = PyNone
        \/ req.state.target_issue = EmptyDict) =>
        /\ ~op.result.raised
        /\ op.result.value.user_content = req.state.user_content
        /\ op.result.calls = <<>>

C6_Witness ==
    /\ op.kind = "fix"
    /\ HasTarget(req.state)
    /\ req.state.target_issue = EmptyDict
    /\ req.state.user_content = <<"a", "b">>
    /\ credentials
    /\ op.result.value.user_content = <<"a", "b">>

\* C7: on every return path of the fix operation the resulting state has
\* target_issue equal to null.
C7_FixClearsTargetIssue ==
    (op.kind = "invoke" /\ op.branch = "fixer") =>
        /\ op.result.value.target_issue = PyNone
        /\ checkpoint[op.thread].target_issue = PyNone

\* C8: the content returned by fixer_node is the provider's fixed_content
\* when the provider call succeeds and the input user_content, character for
\* character, when the provider call raises; nothing else is returned.
C8_FixedOrOriginalContent ==
    (op.kind = "fix" /\ HasTarget(req.state) /\ Truthy(req.state.target_issue)) =>
        /\ Len(op.result.calls) = 1
        /\ op.outcome.ok =>
              op.result.value.user_content = op.outcome.response.fixed_content
        /\ ~op.outcome.ok =>
              /\ Len(op.result.value.user_content) = Len(req.state.user_content)
              /\ \A i \in 1..Len(req.state.user_content) :
                    op.result.value.user_content[i] = req.state.user_content[i]

C8_Witness ==
    /\ op.kind = "fix"
    /\ HasTarget(req.state)
    /\ req.state.target_issue = PyDict(FixableIssue)
    /\ req.state.user_content = <<"a", " ">>
    /\ ~op.outcome.ok
    /\ op.result.value.user_content = <<"a", " ">>

DistinctIds(sections) ==
    \A i, j \in 1..Len(sections) : i # j => sections[i].id # sections[j].id

\* C9: run_batch_audit over N sections with distinct ids returns
\* section_results with exactly N entries, one per section id, invokes the
\* consistency check exactly once per batch, after the audits, and returns
\* that single result as global_result.
C9_BatchOneEntryPerSection ==
    (op.kind = "batch" /\ DistinctIds(req.sections)) =>
        LET n == Len(req.sections)
            invoked == op.result.invoked
        IN  /\ ~op.result.raised
            /\ DOMAIN op.result.value.section_results =
                   {req.sections[i].id : i \in 1..n}
            /\ Cardinality(DOMAIN op.result.value.section_results) = n
            /\ Cardinality({i \in 1..Len(invoked) :
                               invoked[i].node = "consistency_node"}) = 1
            /\ Len(invoked) = n + 1
            /\ Cardinality({i \in 1..Len(op.result.calls) :
                               op.result.calls[i].schema = "ConsistencyResponse"}) <= 1
            /\ IsConsistencyResult(op.result.value.global_result)
            /\ (credentials /\ op.global_outcome.ok) =>
                  /\ op.result.value.global_result.is_consistent =
                         op.global_outcome.response.is_consistent
                  /\ op.result.value.global_result.global_issues =
                         op.global_outcome.response.global_issues

C9_Witness ==
    /\ op.kind = "batch"
    /\ Len(req.sections) = 2
    /\ DistinctIds(req.sections)
    /\ credentials
    /\ op.global_outcome.ok
    /\ Cardinality(DOMAIN op.result.value.section_results) = 2
    /\ op.result.value.global_result.global_issues = <<GlobalIssue>>

\* The sections of a batch that reach the provider, in list order.
RECURSIVE AuditedContents(_)
AuditedContents(sections) ==
    IF sections = <<>> THEN <<>>
    ELSE IF TrimmedLen(Head(sections).user_data.content) >= 2
         THEN <<Head(sections).user_data.content>> \o AuditedContents(Tail(sections))
         ELSE AuditedContents(Tail(sections))

\* The contents sent to the provider for auditing, in call order.
RECURSIVE AuditCallContents(_)
AuditCallContents(calls) ==
    IF calls = <<>> THEN <<>>
    ELSE IF Head(calls).schema = "AuditResponse"
         THEN <<Head(calls).args.user_content>> \o AuditCallContents(Tail(calls))
         ELSE AuditCallContents(Tail(calls))

\* C10: in run_batch_audit each section's entry is what auditing that section
\* alone returns: a section with empty content gets the synthesized
\* empty-content result while the others are audited through the provider,
\* and a provider failure on one section neither aborts the batch nor changes
\* another section's result.
C10_BatchSectionsIndependent ==
    (op.kind = "batch" /\ DistinctIds(req.sections)) =>
        /\ ~op.result.raised
        /\ AuditCallContents(op.result.calls) = AuditedContents(req.sections)
        /\ \A i \in 1..Len(req.sections) :
              req.sections[i].id \in DOMAIN op.result.value.section_results
        /\ \A i \in 1..Len(req.sections) :
              LET content == req.sections[i].user_data.content
                  entry == op.result.value.section_results[req.sections[i].id]
              IN  IF TrimmedLen(content) < 2
                  THEN /\ SingleBlockingIssue(entry)
                       /\ entry.issues[1].id = "0"
                  ELSE IF op.outcomes[i].ok
                  THEN /\ entry.is_compliant = op.outcomes[i].response.is_compliant
                       /\ entry.issues = op.outcomes[i].response.issues
                  ELSE /\ SingleBlockingIssue(entry)
                       /\ entry.issues[1].id = "err"

C10_Witness ==
    /\ op.kind = "batch"
    /\ credentials
    /\ Len(req.sections) = 2
    /\ DistinctIds(req.sections)
    /\ req.sections[1].user_data.content = <<>>
    /\ TrimmedLen(req.sections[2].user_data.content) >= 2
    /\ op.outcomes[2].ok
    /\ op.result.value.section_results[req.sections[1].id].issues[1].id = "0"
    /\ op.result.value.section_results[req.sections[2].id] = op.outcomes[2].response
    /\ Len(AuditCallContents(op.result.calls)) = 1


\* C11: consistency_node returns {is_consistent: false, global_issues: []}
\* and does not raise whenever credentials are missing or the provider call
\* fails; otherwise it returns the provider's is_consistent flag and
\* global_issues.
C11_ConsistencyFallback ==
    op.kind = "consistency" =>
        /\ ~op.result.raised
        /\ IF credentials /\ op.outcome.ok
           THEN /\ op.result.value.is_consistent = op.outcome.response.is_consistent
                /\ op.result.value.global_issues = op.outcome.response.global_issues
           ELSE /\ op.result.value.is_consistent = FALSE
                /\ op.result.value.global_issues = <<>>

C11_Witness ==
    /\ op.kind = "consistency"
    /\ credentials
    /\ ~op.outcome.ok
    /\ Len(op.result.calls) = 1
    /\ op.result.value.is_consistent = FALSE


\* The sections of the workspace that carry the given id.
Holders(ws, section_id) ==
    {i \in 1..Len(get_sections(ws)) : get_sections(ws)[i].id = section_id}

\* C12: update_section_audit_result(id, r) stores r as the section's
\* last_audit and sets its status to 'compliant' exactly when r.is_compliant
\* is true, and to 'flagged' otherwise.
C12_AuditResultStored ==
    [][\A section_id \in KnownIds, audit_result \in SampleAuditResponse :
          UpdateSectionAuditResult(section_id, audit_result) =>
              \A i \in Holders(workspace, section_id) :
                  /\ i \in Holders(workspace', section_id)
                  /\ workspace'.sections[i].user_data.last_audit = PyDict(audit_result)
                  /\ (workspace'.sections[i].user_data.status = "compliant")
                        <=> (audit_result.is_compliant = TRUE)
                  /\ workspace'.sections[i].user_data.status \in {"compliant", "flagged"}]_vars

C12_Witness ==
    \E i \in 1..Len(get_sections(workspace)) :
        LET user_data == workspace.sections[i].user_data
        IN  /\ user_data.status = "flagged"
            /\ user_data.last_audit.tag = "dict"
            /\ user_data.last_audit.d.is_compliant = FALSE
            /\ user_data.last_audit.d.issues # <<>>

\* C13: update_section_content(id, text) sets the section's content to text
\* and leaves it with status 'draft' and last_audit null, whatever its status
\* was before.
C13_ContentEditResets ==
    [][\A section_id \in KnownIds, new_content \in EditedContents :
          UpdateSectionContent(section_id, new_content) =>
              \A i \in Holders(workspace, section_id) :
                  /\ i \in Holders(workspace', section_id)
                  /\ workspace'.sections[i].user_data =
                        [content |-> new_content, last_audit |-> PyNone,
                         status |-> "draft"]]_vars

\* An edited section back in draft next to one that still carries its audit.
C13_Witness ==
    \E i, j \in 1..Len(get_sections(workspace)) :
        /\ workspace.sections[i].user_data =
              [content |-> <<"a", "b">>, last_audit |-> PyNone, status |-> "draft"]
        /\ workspace.sections[j].user_data.status = "flagged"
        /\ workspace.sections[j].user_data.content = <<"a", "b">>


\* C14: after load_template_into_state(name) the workspace holds one section
\* per template entry, in template order, each with its own id, status
\* 'draft', last_audit null and, for an entry without example content, empty
\* content; active_template_name is name.
C14_TemplateLoaded ==
    [][\A template_name \in TemplateNames :
          LoadTemplate(template_name) =>
              LET entries == Get(TEMPLATES, template_name, <<>>)
                  sections == get_sections(workspace')
              IN  /\ workspace'.active_template_name = PyStr(template_name)
                  /\ Len(sections) = Len(entries)
                  /\ DistinctIds(sections)
                  /\ \A i \in 1..Len(entries) :
                        /\ i \in DOMAIN sections
                        /\ sections[i].meta.title = entries[i].title
                        /\ sections[i].meta.criteria = entries[i].criteria
                        /\ sections[i].meta.template_structure = entries[i].template_content
                        /\ sections[i].user_data.status = "draft"
                        /\ sections[i].user_data.last_audit = PyNone
                        /\ "example_content" \notin DOMAIN entries[i]
                              => sections[i].user_data.content = <<>>]_vars

C14_Witness ==
    /\ workspace.active_template_name = PyStr("Simple Document")
    /\ Len(workspace.sections) = 2
    /\ workspace.sections[1].meta.title = "1. Executive Summary"
    /\ workspace.sections[2].meta.title = "2. Key Highlights"
    /\ workspace.sections[1].id # workspace.sections[2].id
    /\ \A i \in 1..2 :
          workspace.sections[i].user_data =
              [content |-> <<>>, last_audit |-> PyNone, status |-> "draft"]

\* C15: loading a template whose entries carry example_content ('Example PMBOK
\* Project Charter') initializes each section's content to that
\* example_content; templates without it still load with empty content.
C15_ExampleContentLoaded ==
    [][\A template_name \in TemplateNames :
          LoadTemplate(template_name) =>
              LET entries == Get(TEMPLATES, template_name, <<>>)
                  sections == get_sections(workspace')
              IN  \A i \in 1..Len(entries) :
                      /\ i \in DOMAIN sections
                      /\ sections[i].user_data.content =
                            Get(entries[i], "example_content", <<>>)]_vars


\* The ids of the sections of a workspace.
IdsOf(ws) == {get_sections(ws)[i].id : i \in 1..Len(get_sections(ws))}

C17_GlobalResultLifecycle ==
    /\ get_global_audit_result(workspace) = PyNone
    /\ [][/\ \A global_result \in SampleConsistencyResponse :
                 UpdateGlobalAuditResult(global_result) =>
                     get_global_audit_result(workspace') = PyDict(global_result)
          /\ (\/ ClearWorkspace
              \/ \E template_name \in TemplateNames : LoadTemplate(template_name)
              \/ \E imported \in ImportedLists : LoadImported(imported))
                 => get_global_audit_result(workspace') = PyNone
          /\ (/\ req.kind # "ui"
              /\ ~ \E global_result \in SampleConsistencyResponse :
                       UpdateGlobalAuditResult(global_result))
                 => get_global_audit_result(workspace') \in
                        {PyNone, get_global_audit_result(workspace)}
          /\ (/\ req.kind = "ui"
              /\ get_global_audit_result(workspace') \notin
                     {PyNone, get_global_audit_result(workspace)})
                 => \E outcomes \in [OnScreen -> Outcomes(credentials, SampleErrors,
                                                          SampleAuditResponse)],
                       global_outcome \in GlobalOutcomes :
                        ClickReviewAll(outcomes, global_outcome)]_vars

\* A stored global result next to loaded sections.
C17_Witness ==
    /\ get_sections(workspace) # <<>>
    /\ get_global_audit_result(workspace).tag = "dict"
    /\ get_global_audit_result(workspace).d.is_consistent = FALSE
    /\ get_global_audit_result(workspace).d.global_issues # <<>>

\* Everything of a workspace but the sections that carry the given id.
Rest(ws, section_id) ==
    [ws EXCEPT !.sections =
        [i \in 1..Len(ws.sections) |->
            IF ws.sections[i].id = section_id
            THEN [id |-> section_id, meta |-> ws.sections[i].meta]
            ELSE ws.sections[i]]]

\* C18: update_section_content and update_section_audit_result change only
\* the section with the given id; with an id that no section has they leave
\* the workspace unchanged.
C18_OnlyGivenSectionChanges ==
    [][\A section_id \in KnownIds :
          (\/ \E new_content \in EditedContents :
                 UpdateSectionContent(section_id, new_content)
           \/ \E audit_result \in SampleAuditResponse :
                 UpdateSectionAuditResult(section_id, audit_result))
          => /\ Rest(workspace', section_id) = Rest(workspace, section_id)
             /\ section_id \notin IdsOf(workspace) => workspace' = workspace]_vars

\* One audited section next to an untouched one.
C18_Witness ==
    \E i, j \in 1..Len(get_sections(workspace)) :
        /\ workspace.sections[i].user_data.status = "compliant"
        /\ workspace.sections[j].user_data =
              [content |-> <<>>, last_audit |-> PyNone, status |-> "draft"]


\* A key that is set and not the empty string.
NonEmpty(v) == v.tag = "str" /\ v.s # <<>>

\* C19: get_user_llm resolves the API key as user input first, then system
\* secret: it returns null when neither key is set or when the client
\* constructor raises; otherwise it builds the client with the user key
\* whenever that is non-empty and with the system key only when the user key
\* is empty.
C19_UserKeyThenSystemKey ==
    op.kind = "llm" =>
        LET user == Get(req.session_state, "user_api_key", PyNone)
            system == Get(req.session_state, "system_api_key", PyNone)
            llm == op.result.value
        IN  IF (~NonEmpty(user) /\ ~NonEmpty(system)) \/ ~op.construct.ok
            THEN llm = PyNone
            ELSE /\ llm.tag = "ChatOpenAI"
                 /\ llm.kwargs.api_key = IF NonEmpty(user) THEN user ELSE system

\* Both keys set: the client carries the user's.
C19_Witness ==
    /\ op.kind = "llm"
    /\ op.construct.ok
    /\ "user_api_key" \in DOMAIN req.session_state
    /\ "system_api_key" \in DOMAIN req.session_state
    /\ req.session_state.system_api_key = PyStr(<<"sk-system">>)
    /\ op.result.value.tag = "ChatOpenAI"
    /\ op.result.value.kwargs.api_key = PyStr(<<"sk-user">>)


\* The first position from p on at which pattern occurs in text, 0 if none.
RECURSIVE FindFrom(_, _, _)
FindFrom(text, pattern, p) ==
    IF p + Len(pattern) - 1 > Len(text) THEN 0
    ELSE IF SubSeq(text, p, p + Len(pattern) - 1) = pattern THEN p
    ELSE FindFrom(text, pattern, p + 1)

\* Whether the sections' titles and contents occur in text from p on, one
\* after the other in list order.
RECURSIVE InListOrder(_, _, _)
InListOrder(text, sections, p) ==
    IF sections = <<>> THEN TRUE
    ELSE LET t == FindFrom(text, <<Head(sections).meta.title>>, p)
             c == IF t = 0 THEN 0
                  ELSE FindFrom(text, Head(sections).user_data.content, t + 1)
         IN  /\ t # 0
             /\ c # 0
             /\ InListOrder(text, Tail(sections),
                            c + Len(Head(sections).user_data.content))

\* C20: run_batch_audit audits the sections one after another in list order
\* and invokes the consistency check only after the last audit has returned,
\* on a text that contains every section's title and content in list order.
C20_BatchOrder ==
    op.kind = "batch" =>
        LET n == Len(req.sections)
            invoked == op.result.invoked
            calls == op.result.calls
        IN  /\ Len(invoked) = n + 1
            /\ \A i \in 1..n :
                  /\ i \in DOMAIN invoked
                  /\ invoked[i] = [node |-> "auditor_node", section |-> req.sections[i].id]
            /\ invoked[Len(invoked)].node = "consistency_node"
            /\ \A i, j \in 1..Len(calls) :
                  (calls[i].schema = "ConsistencyResponse" /\ calls[j].schema = "AuditResponse")
                      => j < i
            /\ AuditCallContents(calls) = AuditedContents(req.sections)
            /\ InListOrder(invoked[Len(invoked)].text, req.sections, 1)

\* Two different sections; the first goes to the provider, the second is
\* too short to be sent, and the consistency call comes last.
C20_Witness ==
    /\ op.kind = "batch"
    /\ Len(req.sections) = 2
    /\ req.sections[1].meta.title # req.sections[2].meta.title
    /\ req.sections[1].user_data.content = <<"a", "b">>
    /\ req.sections[2].user_data.content = <<" ", "a">>
    /\ Len(op.result.calls) = 2
    /\ op.result.calls[1].schema = "AuditResponse"
    /\ op.result.calls[2].schema = "ConsistencyResponse"
    /\ Len(op.result.invoked) = 3
    /\ op.result.invoked[3].node = "consistency_node"


\* The number of provider calls made for the given schema.
CallsFor(calls, schema) ==
    Cardinality({i \in 1..Len(calls) : calls[i].schema = schema})

\* C21: a single audit and a single fix each make at most one provider call,
\* also after a failure, and a batch makes at most one audit provider call
\* per section.
C21_AtMostOneProviderCall ==
    /\ op.kind \in {"audit", "fix", "invoke"} => Len(op.result.calls) <= 1
    /\ op.kind = "batch" =>
          /\ CallsFor(op.result.calls, "AuditResponse") <= Len(req.sections)
          /\ CallsFor(op.result.calls, "ConsistencyResponse") <= 1
          /\ Len(op.result.calls) <= Len(req.sections) + 1

\* A fix whose provider call failed: one call, no second attempt.
C21_Witness ==
    /\ op.kind = "fix"
    /\ credentials
    /\ ~op.outcome.ok
    /\ Len(op.result.calls) = 1
    /\ op.result.calls[1].schema = "FixResponse"

\* C23 as stated: every result of auditor_node with is_compliant = true has
\* an empty issues list, and every synthesized result has is_compliant = false
\* with exactly one issue.
C23_CompliantHasNoIssues ==
    (op.kind = "audit" /\ ~op.result.raised) =>
        /\ op.result.value.is_compliant = TRUE => op.result.value.issues = <<>>
        /\ (IsEmptyContent(Get(req.state, "user_content", <<>>)) \/ ~op.outcome.ok) =>
              /\ op.result.value.is_compliant = FALSE
              /\ Len(op.result.value.issues) = 1

\* C23: auditor_node returns the provider's is_compliant and issues as they
\* are, so a result with is_compliant = true has an empty issues list exactly
\* when the provider's response has one; every synthesized result (empty
\* content, failed provider call) has is_compliant = false with exactly one
\* issue.
C23_CompliantAsProvider ==
    (op.kind = "audit" /\ ~op.result.raised) =>
        IF IsEmptyContent(Get(req.state, "user_content", <<>>)) \/ ~op.outcome.ok
        THEN /\ op.result.value.is_compliant = FALSE
             /\ Len(op.result.value.issues) = 1
        ELSE /\ op.result.value.is_compliant = op.outcome.response.is_compliant
             /\ op.result.value.issues = op.outcome.response.issues

\* The provider calls content with issues compliant, and so does the result.
C23_Witness ==
    /\ op.kind = "audit"
    /\ op.outcome.ok
    /\ Len(op.result.calls) = 1
    /\ op.result.value.is_compliant = TRUE
    /\ op.result.value.issues # <<>>


\* C22: auditor_node and run_batch_audit change neither their inputs nor the
\* state store: the request and every section's content, status and
\* last_audit are the same after the call as before, and results reach the
\* store only when the caller (_run_global_audit) deposits them afterwards.
C22_AuditCallsLeaveStateAlone ==
    /\ [][(op.kind = "none" /\ op'.kind \in {"audit", "batch"}) =>
              /\ req' = req
              /\ workspace' = workspace
              /\ checkpoint' = checkpoint]_vars
    /\ [](req.kind = "ui" =>
            \A outcomes \in [OnScreen -> Outcomes(credentials, SampleErrors, SampleAuditResponse)],
               global_outcome \in GlobalOutcomes :
                LET sections == get_sections(workspace)
                    results == run_batch_audit(sections, outcomes, credentials, global_outcome)
                    stored == run_global_audit(workspace, outcomes, credentials, global_outcome)
                IN  /\ ~results.raised
                    /\ Len(get_sections(stored)) = Len(sections)
                    /\ \A i \in OnScreen :
                          /\ stored.sections[i].id = sections[i].id
                          /\ stored.sections[i].meta = sections[i].meta
                          /\ stored.sections[i].user_data.content = sections[i].user_data.content
                          /\ sections[i].id \in DOMAIN results.value.section_results
                          /\ stored.sections[i].user_data.last_audit =
                                 PyDict(results.value.section_results[sections[i].id]))

\* After a batch over two sections with results for both, the sections of
\* the request are still drafts without an audit.
C22_Witness ==
    /\ op.kind = "batch"
    /\ Len(req.sections) = 2
    /\ DistinctIds(req.sections)
    /\ ~op.result.raised
    /\ Cardinality(DOMAIN op.result.value.section_results) = 2
    /\ \A i \in 1..2 :
          /\ req.sections[i].user_data.status = "draft"
          /\ req.sections[i].user_data.last_audit = PyNone

\* The issues of a section's stored audit, none when there is no audit.
StoredIssues(section) ==
    IF section.user_data.last_audit.tag = "dict"
    THEN Get(section.user_data.last_audit.d, "issues", <<>>)
    ELSE <<>>

\* Whether an issue carries fixable = true.
Fixable(issue) == "fixable" \in DOMAIN issue /\ issue.fixable = TRUE

\* C24: a fix request is only issued for an issue of the section's stored
\* audit whose fixable flag is true; an issue with fixable = false or without
\* the flag, the synthesized empty-content and service-failure issues
\* included, is shown with a disabled 'Input Required' button only, and a
\* Review never reaches the fixer.
C24_OnlyFixableIssuesReachFixer ==
    /\ [](op.kind = "render" =>
             /\ Len(op.buttons) <= Len(StoredIssues(req.section))
             /\ \A j \in DOMAIN op.buttons :
                   /\ op.buttons[j].issue = StoredIssues(req.section)[j]
                   /\ ~Fixable(op.buttons[j].issue) =>
                         /\ op.buttons[j].label = "Input Required"
                         /\ op.buttons[j].disabled)
    /\ [](\A i \in OnScreen :
             LET section == workspace.sections[i]
                 buttons == render_audit_results(section)
             IN  /\ route_request(ReviewInputs(section, widgets)) = "auditor"
                 /\ \A j \in DOMAIN buttons :
                       /\ j \in DOMAIN StoredIssues(section)
                       /\ buttons[j].issue = StoredIssues(section)[j]
                       /\ ~Fixable(buttons[j].issue) =>
                             /\ buttons[j].label = "Input Required"
                             /\ buttons[j].disabled)
    /\ [][\A i \in OnScreen :
             \A j \in DOMAIN render_audit_results(workspace.sections[i]),
                outcome \in Outcomes(credentials, SampleErrors, SampleFixResponse) :
                 ClickAutoFix(i, j, outcome) =>
                     /\ j \in DOMAIN StoredIssues(workspace.sections[i])
                     /\ Fixable(StoredIssues(workspace.sections[i])[j])]_vars

\* One section went through an Auto-Fix; another shows the synthesized
\* issue of an empty section behind a disabled button.
C24_Witness ==
    \E i, k \in OnScreen :
        /\ req.kind = "ui"
        /\ workspace.sections[i].user_data.last_audit = EmptyDict
        /\ Len(render_audit_results(workspace.sections[k])) = 1
        /\ ~Fixable(render_audit_results(workspace.sections[k])[1].issue)
        /\ render_audit_results(workspace.sections[k])[1].label = "Input Required"
        /\ render_audit_results(workspace.sections[k])[1].disabled

\* C25: the Review of a section audits the editor widget's text whenever the
\* widget state exists and the stored content otherwise, so text typed just
\* before the click is audited although the store is not synced yet.
C25_ReviewAuditsEditorText ==
    [][\A i \in OnScreen :
          \A outcome \in Outcomes(credentials, SampleErrors, SampleAuditResponse) :
              ClickReview(i, outcome) =>
                  LET section == workspace.sections[i]
                      audit == workspace'.sections[i].user_data.last_audit
                  IN  /\ audit.tag = "dict"
                      /\ "user_content" \in DOMAIN audit.d
                      /\ audit.d.user_content =
                            IF section.id \in DOMAIN widgets
                            THEN widgets[section.id]
                            ELSE section.user_data.content
                      /\ workspace'.sections[i].user_data.content =
                            section.user_data.content]_vars

\* The audit is of the typed text, which the store does not hold yet.
C25_Witness ==
    \E i \in OnScreen :
        LET section == workspace.sections[i]
        IN  /\ section.user_data.last_audit.tag = "dict"
            /\ "user_content" \in DOMAIN section.user_data.last_audit.d
            /\ section.user_data.last_audit.d.user_content = <<"a", "b">>
            /\ section.user_data.content = <<>>
            /\ section.id \in DOMAIN widgets
            /\ widgets[section.id] = <<"a", "b">>

\* C26: after a successful Auto-Fix the section's stored content and its
\* editor widget both hold the fixed text, and the section is back to status
\* 'draft' with no audit result.
C26_FixedSectionIsDraft ==
    [][\A i \in OnScreen :
          \A j \in DOMAIN render_audit_results(workspace.sections[i]),
             outcome \in Outcomes(credentials, SampleErrors, SampleFixResponse) :
              (ClickAutoFix(i, j, outcome) /\ outcome.ok) =>
                  /\ workspace'.sections[i].user_data.content = outcome.response.fixed_content
                  /\ Get(widgets', workspace.sections[i].id, <<>>) =
                         outcome.response.fixed_content
                  /\ workspace'.sections[i].user_data.status = "draft"
                  /\ workspace'.sections[i].user_data.last_audit = PyNone]_vars

\* C28: in every reachable workspace and for every section, status agrees
\* with last_audit: 'draft' exactly when last_audit is null, 'compliant'
\* exactly when it is non-null with is_compliant true, 'flagged' exactly when
\* it is non-null with is_compliant not true.
C28_StatusAgreesWithAudit ==
    \A i \in OnScreen :
        LET user_data == workspace.sections[i].user_data
            audited == user_data.last_audit # PyNone
            compliant == /\ user_data.last_audit.tag = "dict"
                         /\ "is_compliant" \in DOMAIN user_data.last_audit.d
                         /\ user_data.last_audit.d.is_compliant = TRUE
        IN  /\ user_data.status \in {"draft", "compliant", "flagged"}
            /\ user_data.status = "draft" <=> ~audited
            /\ user_data.status = "compliant" <=> (audited /\ compliant)
            /\ user_data.status = "flagged" <=> (audited /\ ~compliant)

\* A section flagged with the empty audit an Auto-Fix leaves, next to a
\* compliant one.
C28_Witness ==
    \E i, k \in OnScreen :
        /\ workspace.sections[i].user_data.status = "flagged"
        /\ workspace.sections[i].user_data.last_audit = EmptyDict
        /\ workspace.sections[k].user_data.status = "compliant"

\* C29: a chat submit leaves content, status and last_audit of every section
\* whose editor text equals its stored content as they were, and chat_history
\* grows by one user message followed by one assistant message.
C29_ChatLeavesAuditsAlone ==
    [][\A user_input \in ChatInputs, outcome \in ChatOutcomes :
          ChatSubmit(user_input, outcome) =>
              /\ Len(chat_history') = Len(chat_history) + 2
              /\ SubSeq(chat_history', 1, Len(chat_history)) = chat_history
              /\ chat_history'[Len(chat_history) + 1] =
                     [role |-> "user", content |-> user_input]
              /\ chat_history'[Len(chat_history) + 2].role = "assistant"
              /\ \A i \in OnScreen :
                    Get(widgets, workspace.sections[i].id,
                        workspace.sections[i].user_data.content)
                        = workspace.sections[i].user_data.content
                    => workspace'.sections[i].user_data =
                           workspace.sections[i].user_data]_vars

\* C30: when an Auto-Fix fails because the provider call raises, the section
\* is left as it was: content, status and last_audit with its issues are
\* unchanged.
C30_FailedFixChangesNothing ==
    [][\A i \in OnScreen :
          \A j \in DOMAIN render_audit_results(workspace.sections[i]),
             outcome \in Outcomes(credentials, SampleErrors, SampleFixResponse) :
              (ClickAutoFix(i, j, outcome) /\ ~outcome.ok) =>
                  workspace'.sections[i].user_data =
                      workspace.sections[i].user_data]_vars

====
